---- MODULE Spec2Model ----
(***************************************************************************)
(* A model of the CustomKnight Creator sprite back end: the Sprite object *)
(* with its mtime-gated content/hash cache (Sprite.py) and the            *)
(* SpriteHandler registry, duplicate engine and propagation               *)
(* (spritehandler.py), together with the part of the file system they     *)
(* read and write.                                                        *)
(*                                                                         *)
(* Images are sequences of rows (top row first) of pixels; a pixel is 0   *)
(* or 1.  A path is a sequence of components, absolute when it starts     *)
(* with "/".  An optional value (Python None / an attribute not yet set)  *)
(* is a sequence of length 0 or 1.                                        *)
(***************************************************************************)
EXTENDS Integers, Sequences, FiniteSets, TLC

\* Bounds of the model: the file system clock advances with every call that
\* writes (a save by the user, a propagation), and writing stops at MaxClock;
\* the user saves at most MaxEdits times during the session.
MaxClock == 2
MaxEdits == 1

\* The largest extent min_dimension is applied to on its own.
MaxExtent == 130

(***************************************************************************)
(* Paths (pathlib.Path).                                                   *)
(***************************************************************************)
is_absolute(p) == Len(p) > 0 /\ p[1] = "/"

joinpath(base, p) == IF is_absolute(p) THEN p ELSE base \o p

\* SpriteHandler.sprite_path, as configured by the caller.
sprite_path == <<"/", "sprites">>

rectify_sprite_path(path) ==
    IF is_absolute(path) THEN path ELSE joinpath(sprite_path, path)

\* Sprite.animation: path.parent.name
animation(path) == path[Len(path) - 1]

\* Path.name
name(path) == path[Len(path)]

(***************************************************************************)
(* Images (PIL.Image): size, crop, paste, getdata, and Python's hash of   *)
(* the pixel tuple.                                                        *)
(***************************************************************************)
Height(im) == Len(im)

Width(im) == IF Len(im) = 0 THEN 0 ELSE Len(im[1])

\* The pixel at 0-based (x, y); outside the image a crop reads transparent 0.
PixelAt(im, x, y) ==
    IF x >= 0 /\ x < Width(im) /\ y >= 0 /\ y < Height(im)
    THEN im[y + 1][x + 1]
    ELSE 0

\* Image.crop((left, upper, right, lower))
crop(im, left, upper, right, lower) ==
    [r \in 1..(lower - upper) |->
        [c \in 1..(right - left) |-> PixelAt(im, left + c - 1, upper + r - 1)]]

\* Image.paste(src, (x, y)): src overwrites the rectangle of its own size at
\* (x, y), clipped to the image.
paste(im, src, x, y) ==
    [r \in 1..Height(im) |->
        [c \in 1..Width(im) |->
            IF (r - 1 - y) >= 0 /\ (r - 1 - y) < Height(src)
               /\ (c - 1 - x) >= 0 /\ (c - 1 - x) < Width(src)
            THEN src[r - y][c - x]
            ELSE im[r][c]]]

\* Image.getdata(): the pixels in row-major order, without the shape.
RECURSIVE getdata(_)
getdata(im) == IF Len(im) = 0 THEN <<>> ELSE Head(im) \o getdata(Tail(im))

\* hash(tuple(...)) of the flat pixel sequence: a deterministic function of
\* the sequence (length included), here its binary numeral behind a leading 1.
RECURSIVE HashFrom(_, _)
HashFrom(h, data) ==
    IF Len(data) = 0 THEN h ELSE HashFrom(2 * h + Head(data), Tail(data))

pixel_hash(content) == HashFrom(1, getdata(content))

\* str(int)
str(n) == ToString(n)

(***************************************************************************)
(* The sprite directory on disk.                                           *)
(***************************************************************************)
I1 == <<"Knight", "Idle", "001.png">>
I2 == <<"Knight", "Idle", "002.png">>
I3 == <<"Knight", "Idle", "003.png">>
R1 == <<"Knight", "Run", "001.png">>
F1 == <<"Sprint", "Fall", "001.png">>
F2 == <<"Sprint", "Fall", "002.png">>
D1 == <<"Dash", "Dash", "001.png">>
D2 == <<"Dash", "Dash", "002.png">>
G1 == <<"Grimm", "Run", "002.png">>
G2 == <<"Grimm", "Idle", "001.png">>

RelPaths == {I1, I2, I3, R1, F1, F2, D1, D2, G1, G2}

FilePaths == {joinpath(sprite_path, p) : p \in RelPaths}

\* The vanilla image of each sprite file.
VanillaImage(p) ==
    IF p = joinpath(sprite_path, F1) THEN << <<0, 1>>, <<0, 0>> >>
    ELSE IF p \in {joinpath(sprite_path, I3), joinpath(sprite_path, F2)}
         THEN << <<1, 1>>, <<1, 1>> >>
    ELSE << <<1, 0>>, <<1, 0>> >>

\* An edited image, and what the user's image editor may save over a sprite
\* file: the edit, or the vanilla bytes again.
EditedImage == << <<0, 1>>, <<1, 1>> >>

EditImages(p) == {VanillaImage(p), EditedImage}

\* The sprite files the user has open in the image editor during the session.
Workbench == {joinpath(sprite_path, I1), joinpath(sprite_path, F1)}

\* The sprite files another program may hold locked while the handler saves.
Lockable == {joinpath(sprite_path, I2)}

\* The sprite directory as installed.
VanillaDisk == [p \in FilePaths |-> VanillaImage(p)]

\* The sprite directory as the user may have left it before the session:
\* untouched; two sprites edited differently; a whole group edited alike.
Disks ==
    LET V == VanillaDisk
        i1 == joinpath(sprite_path, I1)
        i2 == joinpath(sprite_path, I2)
        r1 == joinpath(sprite_path, R1)
        f1 == joinpath(sprite_path, F1)
    IN
    { V,
      [V EXCEPT ![i1] = EditedImage, ![i2] = << <<1, 1>>, <<0, 0>> >>],
      [V EXCEPT ![i1] = << <<0, 0>>, <<1, 1>> >>, ![i2] = << <<1, 1>>, <<0, 0>> >>,
                ![r1] = << <<0, 1>>, <<1, 1>> >>, ![f1] = << <<0, 1>>, <<0, 1>> >>] }

\* SpriteInfo.json of each sprite folder: the parallel arrays.
KnightInfo ==
    [sid |-> <<0, 1, 2, 3>>,
     sx |-> <<0, 2, 4, 0>>,
     sy |-> <<0, 0, 2, 0>>,
     sxr |-> <<0, 0, 0, 0>>,
     syr |-> <<0, 1, 0, 0>>,
     swidth |-> <<2, 2, 2, 1>>,
     sheight |-> <<1, 1, 1, 1>>,
     sfilpped |-> <<FALSE, FALSE, FALSE, FALSE>>,
     spath |-> <<I1, I2, R1, I3>>,
     scollectionname |-> <<"Knight", "Knight", "Knight", "Cloak">>]

SprintInfo ==
    [sid |-> <<0, 1>>,
     sx |-> <<0, 2>>,
     sy |-> <<0, 2>>,
     sxr |-> <<1, 1>>,
     syr |-> <<0, 1>>,
     swidth |-> <<1, 1>>,
     sheight |-> <<2, 1>>,
     sfilpped |-> <<TRUE, FALSE>>,
     spath |-> <<F1, F2>>,
     scollectionname |-> <<"Sprint", "Sprint">>]

\* A descriptor whose sx array is one entry shorter than the others.
DashInfo ==
    [sid |-> <<0, 1>>,
     sx |-> <<0>>,
     sy |-> <<0, 0>>,
     sxr |-> <<0, 0>>,
     syr |-> <<0, 0>>,
     swidth |-> <<2, 2>>,
     sheight |-> <<2, 2>>,
     sfilpped |-> <<FALSE, FALSE>>,
     spath |-> <<D1, D2>>,
     scollectionname |-> <<"Dash", "Dash">>]

\* A folder with frames of animations that the Knight folder has as well.
GrimmInfo ==
    [sid |-> <<0, 1>>,
     sx |-> <<0, 2>>,
     sy |-> <<0, 0>>,
     sxr |-> <<0, 0>>,
     syr |-> <<0, 0>>,
     swidth |-> <<2, 2>>,
     sheight |-> <<1, 1>>,
     sfilpped |-> <<FALSE, FALSE>>,
     spath |-> <<G1, G2>>,
     scollectionname |-> <<"Grimm", "Grimm">>]

\* The keys load_sprite_info reads from a descriptor.
RequiredFields ==
    {"sid", "sx", "sy", "sxr", "syr", "swidth", "sheight", "sfilpped", "spath",
     "scollectionname"}

\* A descriptor without one of the keys.
Without(data, field) == [f \in DOMAIN data \ {field} |-> data[f]]

KnightPath == <<"Knight", "0.Atlases", "SpriteInfo.json">>
SprintPath == <<"Sprint", "0.Atlases", "SpriteInfo.json">>
DashPath == <<"Dash", "0.Atlases", "SpriteInfo.json">>
GrimmPath == <<"Grimm", "0.Atlases", "SpriteInfo.json">>
ShadePath == <<"Shade", "0.Atlases", "SpriteInfo.json">>
WingsPath == <<"Wings", "0.Atlases", "SpriteInfo.json">>
BrokenPath == <<"Broken", "0.Atlases", "SpriteInfo.json">>
GhostPath == <<"Ghost", "0.Atlases", "SpriteInfo.json">>

\* The descriptor files json.load can read, by resolved path: Shade's has
\* no "sheight", Wings' no "scollectionname".  Broken's file exists but
\* holds no JSON, and Ghost has no file.
DescriptorFiles ==
    (joinpath(sprite_path, KnightPath) :> KnightInfo)
    @@ (joinpath(sprite_path, SprintPath) :> SprintInfo)
    @@ (joinpath(sprite_path, DashPath) :> DashInfo)
    @@ (joinpath(sprite_path, GrimmPath) :> GrimmInfo)
    @@ (joinpath(sprite_path, ShadePath) :> Without(SprintInfo, "sheight"))
    @@ (joinpath(sprite_path, WingsPath) :> Without(KnightInfo, "scollectionname"))

\* The folder selections the window passes to load_sprite_info.
LoadInputs ==
    { <<KnightPath>>, <<SprintPath>>, <<KnightPath, SprintPath>>,
      <<SprintPath, KnightPath>>, <<KnightPath, GhostPath>>, <<BrokenPath>>,
      <<SprintPath, ShadePath>>, <<WingsPath>>, <<DashPath>>,
      <<KnightPath, DashPath>>, <<KnightPath, GrimmPath>>,
      <<GrimmPath, KnightPath>> }

\* resources/duplicatedata.json: vanilla hash -> relative sprite paths.
DuplicateData ==
    (str(pixel_hash(<< <<1, 0>> >>)) :> {I1, I2, R1, F1})
    @@ (str(pixel_hash(<< <<1>> >>)) :> {I3, F2})

\* Hash strings a caller may pass: the groups' keys and one that is no key.
HashKeys == DOMAIN DuplicateData \cup {str(pixel_hash(<< <<0, 1>> >>))}

(***************************************************************************)
(* State.                                                                  *)
(***************************************************************************)
VARIABLES
    files,            \* disk: resolved path -> [kind, px, mtime]
    clock,            \* the file system's clock, the mtime of the last write
    edits,            \* saves made by the user during the session
    sprites,          \* SpriteHandler.__sprites: path -> Sprite
    s_by_collection,  \* SpriteHandler.__s_by_collection (a defaultdict)
    s_by_animation,   \* SpriteHandler.__s_by_animation (a defaultdict)
    duplicates,       \* SpriteHandler.duplicates: hash string -> set of paths
    sheets,           \* output directory: collection name -> the sheet saved
    last              \* the last call and what it returned

vars == <<files, clock, edits, sprites, s_by_collection, s_by_animation,
          duplicates, sheets, last>>

Call(op, arg, ok, ret, aux) ==
    [op |-> op, arg |-> arg, ok |-> ok, ret |-> ret, aux |-> aux]

\* A function with an empty domain: an empty dict.
EmptyDict == [k \in {} |-> <<>>]

ImageFile(px, mtime) == [kind |-> "image", px |-> px, mtime |-> mtime]

Init ==
    /\ files = [p \in FilePaths |-> ImageFile(VanillaImage(p), 0)]
    /\ clock = 0
    /\ edits = 0
    /\ sprites = EmptyDict
    /\ s_by_collection = EmptyDict
    /\ s_by_animation = EmptyDict
    /\ duplicates = EmptyDict
    /\ sheets = EmptyDict
    /\ last = Call("init", <<>>, TRUE, <<>>, <<>>)

(***************************************************************************)
(* Sprite (Sprite.py).                                                     *)
(***************************************************************************)
\* The dataclass constructor: mtime None, __content and __hash not yet set.
Sprite(identifier, x, y, xr, yr, w, h, flipped, path, collection) ==
    [identifier |-> identifier, x |-> x, y |-> y, xr |-> xr, yr |-> yr,
     w |-> w, h |-> h, flipped |-> flipped, path |-> path,
     collection |-> collection,
     mtime |-> <<>>, content |-> <<>>, hash |-> <<>>]

\* The crop box of a sprite in an image of height ih (bottom-origin yr).
crop_of(im, s) ==
    crop(im, s.xr, Height(im) - s.yr - s.h, s.xr + s.w, Height(im) - s.yr)

\* __update_file without the mtime test: the image is read on every call.
update_file_always_reads(s, f) ==
    IF f.kind = "missing"
    THEN [s |-> s, ok |-> FALSE, opened |-> FALSE]
    ELSE IF f.kind # "image"
    THEN [s |-> [s EXCEPT !.mtime = <<f.mtime>>], ok |-> FALSE, opened |-> TRUE]
    ELSE [s |-> [s EXCEPT !.mtime = <<f.mtime>>,
                          !.content = <<crop_of(f.px, s)>>,
                          !.hash = <<pixel_hash(crop_of(f.px, s))>>],
          ok |-> TRUE, opened |-> TRUE]

\* Sprite.__update_file on disk file f: the sprite afterwards, whether the
\* call returned normally, and whether it opened the image.
update_file(s, f) ==
    IF f.kind = "missing"
    THEN [s |-> s, ok |-> FALSE, opened |-> FALSE]
    ELSE IF <<f.mtime>> = s.mtime
    THEN [s |-> s, ok |-> TRUE, opened |-> FALSE]
    ELSE IF f.kind # "image"
    THEN [s |-> [s EXCEPT !.mtime = <<f.mtime>>], ok |-> FALSE, opened |-> TRUE]
    ELSE [s |-> [s EXCEPT !.mtime = <<f.mtime>>,
                          !.content = <<crop_of(f.px, s)>>,
                          !.hash = <<pixel_hash(crop_of(f.px, s))>>],
          ok |-> TRUE, opened |-> TRUE]

\* "return self.__hash" after __update_file returned u; reading an attribute
\* that was never set raises.
read_hash(u) ==
    IF u.ok /\ Len(u.s.hash) = 1
    THEN [s |-> u.s, ok |-> TRUE, val |-> u.s.hash[1], opened |-> u.opened]
    ELSE [s |-> u.s, ok |-> FALSE, val |-> 0, opened |-> u.opened]

\* Sprite.image_hash: the sprite afterwards, whether the call returned, the
\* value, and whether the image was opened.
image_hash(s, f) == read_hash(update_file(s, f))

\* "return self.__content" after __update_file returned u.
read_content(u) ==
    IF u.ok /\ Len(u.s.content) = 1
    THEN [s |-> u.s, ok |-> TRUE, val |-> u.s.content[1], opened |-> u.opened]
    ELSE [s |-> u.s, ok |-> FALSE, val |-> <<>>, opened |-> u.opened]

\* Sprite.content
content(s, f) == read_content(update_file(s, f))

(***************************************************************************)
(* SpriteHandler: loading.                                                 *)
(***************************************************************************)
Min(a, b) == IF a < b THEN a ELSE b

\* zip(...) stops at the shortest array.
ZipLen(data) ==
    Min(Len(data.sid), Min(Len(data.sx), Min(Len(data.sy), Min(Len(data.sxr),
    Min(Len(data.syr), Min(Len(data.swidth), Min(Len(data.sheight),
    Min(Len(data.sfilpped), Min(Len(data.spath), Len(data.scollectionname))))))))))

\* starmap(Sprite, zip(...)) over one descriptor.
SpritesOf(data) ==
    [i \in 1..ZipLen(data) |->
        Sprite(data.sid[i], data.sx[i], data.sy[i], data.sxr[i], data.syr[i],
               data.swidth[i], data.sheight[i], data.sfilpped[i],
               joinpath(sprite_path, data.spath[i]), data.scollectionname[i])]

RECURSIVE Flatten(_)
Flatten(seqs) == IF Len(seqs) = 0 THEN <<>> ELSE Head(seqs) \o Flatten(Tail(seqs))

\* Keys of a dict built by inserting seq's elements in order.
RECURSIVE lunique(_)
lunique(seq) ==
    IF Len(seq) = 0 THEN <<>>
    ELSE LET front == lunique(SubSeq(seq, 1, Len(seq) - 1))
             x == seq[Len(seq)] IN
         IF \E i \in 1..Len(front) : front[i] = x THEN front ELSE Append(front, x)

Range(seq) == {seq[i] : i \in 1..Len(seq)}

\* The dict comprehension of load_sprite_info: the last sprite of a path wins.
sprite_dict(all) ==
    [p \in {all[i].path : i \in 1..Len(all)} |->
        all[CHOOSE i \in 1..Len(all) :
                /\ all[i].path = p
                /\ \A j \in (i + 1)..Len(all) : all[j].path # p]]

\* The registry's keys in dict (first insertion) order.
key_order(all) == lunique([i \in 1..Len(all) |-> all[i].path])

\* __populate_sprites: both indexes rebuilt from the registry, in dict order.
populate_by_collection(d, order) ==
    [c \in {d[p].collection : p \in DOMAIN d} |->
        SelectSeq(order, LAMBDA p : d[p].collection = c)]

populate_by_animation(d, order) ==
    [a \in {animation(d[p].path) : p \in DOMAIN d} |->
        SelectSeq(order, LAMBDA p : animation(d[p].path) = a)]

\* A load that raises and empties the handler's dicts on its way out.
load_failed_cleared(sp, sbc, sba) ==
    [ok |-> FALSE, ret |-> {}, sprites |-> EmptyDict,
     s_by_collection |-> EmptyDict, s_by_animation |-> EmptyDict]

\* open, json.load or a key lookup raised: nothing has been assigned yet.
load_failed(sp, sbc, sba) ==
    [ok |-> FALSE, ret |-> {}, sprites |-> sp,
     s_by_collection |-> sbc, s_by_animation |-> sba]

\* An assignment that adds the new sprites to the registry it has.
merged_registry(sp, d) == d @@ sp

\* "self.__sprites = {...}": the new dict replaces the registry.
new_registry(sp, d) == d

\* The registry assigned and __populate_sprites run on it; "order" is the
\* insertion order of the new dict.
load_done(collections, d, order) ==
    [ok |-> TRUE, ret |-> collections, sprites |-> d,
     s_by_collection |-> populate_by_collection(d, order),
     s_by_animation |-> populate_by_animation(d, order)]

\* load_sprite_info(paths): a descriptor that cannot be opened or parsed, or
\* that lacks a key, raises before anything is assigned; otherwise the
\* registry is replaced and both indexes rebuilt.  The result carries the
\* handler's three dicts afterwards.
load_sprite_info(sp, sbc, sba, paths) ==
    LET rect == [i \in 1..Len(paths) |-> rectify_sprite_path(paths[i])]
        readable == \A i \in 1..Len(rect) : rect[i] \in DOMAIN DescriptorFiles
    IN
    IF ~readable
    THEN load_failed(sp, sbc, sba)
    ELSE LET raw_data == [i \in 1..Len(rect) |-> DescriptorFiles[rect[i]]] IN
         IF \E i \in 1..Len(raw_data) : ~(RequiredFields \subseteq DOMAIN raw_data[i])
         THEN load_failed(sp, sbc, sba)
         ELSE LET all == Flatten([i \in 1..Len(raw_data) |->
                                     SpritesOf(raw_data[i])]) IN
              load_done(UNION {Range(raw_data[i].scollectionname) :
                                  i \in 1..Len(raw_data)},
                        new_registry(sp, sprite_dict(all)), key_order(all))

\* The descriptors of the last load that succeeded, as the calls on the
\* animation index that follow it hand them on.
DescriptorsLoaded ==
    IF last.op \in {"load_sprite_info", "get_animation_sprites"}
    THEN last.aux.descriptors
    ELSE <<>>

LoadSpriteInfo ==
    \E paths \in LoadInputs :
        LET r == load_sprite_info(sprites, s_by_collection, s_by_animation, paths) IN
        /\ sprites' = r.sprites
        /\ s_by_collection' = r.s_by_collection
        /\ s_by_animation' = r.s_by_animation
        /\ last' = Call("load_sprite_info", paths, r.ok, r.ret,
                        [sprites |-> sprites,
                         s_by_collection |-> s_by_collection,
                         s_by_animation |-> s_by_animation,
                         descriptors |-> IF r.ok THEN paths
                                         ELSE DescriptorsLoaded])
        /\ UNCHANGED <<sheets, files, clock, edits, duplicates>>

\* The order of the groups in duplicatedata.json, kept by the dict.
DuplicateOrder ==
    <<str(pixel_hash(<< <<1, 0>> >>)), str(pixel_hash(<< <<1>> >>))>>

\* load_duplicate_info(): the dict built from the file.
load_duplicate_info ==
    [h \in DOMAIN DuplicateData |->
        {rectify_sprite_path(p) : p \in DuplicateData[h]}]

LoadDuplicateInfo ==
    /\ duplicates' = load_duplicate_info
    /\ last' = Call("load_duplicate_info", <<>>, TRUE, <<>>, <<>>)
    /\ UNCHANGED <<sheets, files, clock, edits, sprites, s_by_collection, s_by_animation>>

(***************************************************************************)
(* The user, outside the program: saving over a sprite file.  Every write *)
(* advances the clock, so it changes the file's modification time.        *)
(***************************************************************************)
Rewrite ==
    \E p \in Workbench \cap DOMAIN sprites : \E im \in EditImages(p) :
        /\ clock < MaxClock
        /\ edits < MaxEdits
        /\ clock' = clock + 1
        /\ edits' = edits + 1
        /\ files' = [files EXCEPT ![p] = ImageFile(im, clock + 1)]
        /\ last' = Call("rewrite", p, TRUE, <<>>, <<>>)
        /\ UNCHANGED <<sheets, sprites, s_by_collection, s_by_animation, duplicates>>

\* A save that leaves bytes no image can be read from.
RewriteCorrupt ==
    \E p \in Workbench \cap DOMAIN sprites :
        /\ clock < MaxClock
        /\ edits < MaxEdits
        /\ clock' = clock + 1
        /\ edits' = edits + 1
        /\ files' = [files EXCEPT ![p] =
                        [kind |-> "corrupt", px |-> <<>>, mtime |-> clock + 1]]
        /\ last' = Call("rewrite", p, TRUE, <<>>, <<>>)
        /\ UNCHANGED <<sheets, sprites, s_by_collection, s_by_animation, duplicates>>

(***************************************************************************)
(* Sprite.image_hash, called on a registered sprite.  The call records     *)
(* whether it opened the image, and the value of the call before it when   *)
(* that was a successful call on the same sprite.                          *)
(***************************************************************************)
ImageHash ==
    \E p \in DOMAIN sprites :
        LET r == image_hash(sprites[p], files[p]) IN
        /\ sprites' = [sprites EXCEPT ![p] = r.s]
        /\ last' = Call("image_hash", p, r.ok, r.val,
                        [opened |-> r.opened,
                         after |-> IF last.op = "image_hash" /\ last.ok
                                      /\ last.arg = p
                                   THEN <<last.ret>> ELSE <<>>])
        /\ UNCHANGED <<sheets, files, clock, edits, s_by_collection, s_by_animation,
                       duplicates>>

(***************************************************************************)
(* SpriteHandler: the duplicate engine.  An operation that computes hashes *)
(* threads the registry through its loop, since every image_hash may       *)
(* refresh a sprite's cache; an exception ends the loop where it is        *)
(* raised.  A Python set is iterated in an order the caller does not       *)
(* choose: "order" is that order, a sequence listing the set once.  Every  *)
(* loop over a group passes over the members that are not loaded, so the   *)
(* orders taken are those that differ in the order of the loaded members.  *)
(***************************************************************************)
RECURSIVE Orders(_)
Orders(S) ==
    IF S = {} THEN {<<>>}
    ELSE UNION {{<<x>> \o o : o \in Orders(S \ {x})} : x \in S}

\* One sequence listing S once.
RECURSIVE SomeOrder(_)
SomeOrder(S) ==
    IF S = {} THEN <<>>
    ELSE LET x == CHOOSE y \in S : TRUE IN <<x>> \o SomeOrder(S \ {x})

\* The iteration orders of set S, up to where the members outside "acted_on"
\* (those the loop passes over) stand.
IterationOrders(S, acted_on) ==
    {SomeOrder(S \ acted_on) \o o : o \in Orders(S \cap acted_on)}

\* The rank of order_by_modification with its two values exchanged.
rank_vanilla_first(sp, file, vanilla_hash, r) ==
    [sprites |-> [sp EXCEPT ![file] = r.s], ok |-> r.ok,
     val |-> IF r.ok /\ str(r.val) = vanilla_hash THEN 0 ELSE 1]

\* The rank order_by_modification gives a loaded file, r being what
\* image_hash returned for it: 1 when the hash is the vanilla one, else 0.
rank(sp, file, vanilla_hash, r) ==
    [sprites |-> [sp EXCEPT ![file] = r.s], ok |-> r.ok,
     val |-> IF r.ok /\ str(r.val) = vanilla_hash THEN 1 ELSE 0]

\* order_by_modification(file), the sort key of sorted_duplicates.
order_by_modification(sp, file, vanilla_hash) ==
    IF file \notin DOMAIN sp
    THEN [sprites |-> sp, ok |-> TRUE, val |-> 2]
    ELSE rank(sp, file, vanilla_hash, image_hash(sp[file], files[file]))

\* The keys computed so far, with key k of the next element.
add_key(acc, k) ==
    [sprites |-> k.sprites, ok |-> k.ok,
     keys |-> IF k.ok THEN Append(acc.keys, k.val) ELSE <<>>]

\* sorted() evaluates the key of every element, in list order, before
\* sorting; acc holds the registry and the keys so far.
RECURSIVE key_scan(_, _, _)
key_scan(acc, list, vanilla_hash) ==
    IF Len(list) = 0 \/ ~acc.ok
    THEN acc
    ELSE key_scan(add_key(acc, order_by_modification(acc.sprites, Head(list),
                                                     vanilla_hash)),
                  Tail(list), vanilla_hash)

\* The elements of list whose key is k, in list order.
WithKey(list, keys, k) ==
    LET idx == SelectSeq([i \in 1..Len(list) |-> i], LAMBDA i : keys[i] = k) IN
    [j \in 1..Len(idx) |-> list[idx[j]]]

\* sorted(list, key=...): stable, ascending in the key.
sorted_by_key(list, keys) ==
    WithKey(list, keys, 0) \o WithKey(list, keys, 1) \o WithKey(list, keys, 2)

\* What sorted_duplicates returns once the keys k of the loaded members are
\* computed.
sorted_result(loaded, k) ==
    [sprites |-> k.sprites, ok |-> k.ok,
     ret |-> IF k.ok THEN sorted_by_key(loaded, k.keys) ELSE <<>>]

\* sorted_duplicates(vanilla_hash); order iterates duplicates[vanilla_hash].
sorted_duplicates(sp, vanilla_hash, order) ==
    IF vanilla_hash \notin DOMAIN duplicates
    THEN [sprites |-> sp, ok |-> FALSE, ret |-> <<>>]
    ELSE LET loaded == SelectSeq(order, LAMBDA p : p \in DOMAIN sp) IN
         sorted_result(loaded,
                       key_scan([sprites |-> sp, ok |-> TRUE, keys |-> <<>>],
                                loaded, vanilla_hash))

\* What a call on group vanilla_hash finds when it directly follows a
\* completed propagate_main_copy on that group: the main, the siblings
\* written, and the loaded members whose cached hash is of an earlier
\* version of their file.
AfterPropagate(vanilla_hash) ==
    IF last.op = "propagate_main_copy" /\ last.ok /\ last.arg[1] = vanilla_hash
    THEN <<[main |-> last.arg[2], written |-> last.aux.written,
            stale |-> {p \in duplicates[vanilla_hash] \cap DOMAIN sprites :
                          /\ sprites[p].hash # <<>>
                          /\ sprites[p].mtime # <<files[p].mtime>>}]>>
    ELSE <<>>

SortedDuplicates ==
    \E vanilla_hash \in HashKeys :
    \E order \in IterationOrders(IF vanilla_hash \in DOMAIN duplicates
                                 THEN duplicates[vanilla_hash] ELSE {},
                                 DOMAIN sprites) :
        LET r == sorted_duplicates(sprites, vanilla_hash, order) IN
        /\ sprites' = r.sprites
        /\ last' = Call("sorted_duplicates", vanilla_hash, r.ok, r.ret,
                        AfterPropagate(vanilla_hash))
        /\ UNCHANGED <<sheets, files, clock, edits, s_by_collection, s_by_animation,
                       duplicates>>

\* The test of check_completion without the comparison to the first hash.
only_vanilla(curr_hash, prev_hash, vanilla_hash) == curr_hash = vanilla_hash

\* The test of check_completion on a sprite after the first loaded one.
differs_or_vanilla(curr_hash, prev_hash, vanilla_hash) ==
    curr_hash # prev_hash \/ curr_hash = vanilla_hash

\* The body of check_completion's loop for a loaded path, r being what
\* image_hash returned for its sprite.
compare(acc, path, vanilla_hash, r) ==
    LET sp2 == [acc.sprites EXCEPT ![path] = r.s] IN
    IF ~r.ok
    THEN [acc EXCEPT !.sprites = sp2, !.ok = FALSE, !.ret = FALSE, !.done = TRUE]
    ELSE IF acc.prev_hash = ""
    THEN [acc EXCEPT !.sprites = sp2, !.prev_hash = str(r.val)]
    ELSE IF differs_or_vanilla(str(r.val), acc.prev_hash, vanilla_hash)
    THEN [acc EXCEPT !.sprites = sp2, !.ret = FALSE, !.done = TRUE]
    ELSE [acc EXCEPT !.sprites = sp2]

\* One iteration of check_completion's loop.
completion_step(acc, path, vanilla_hash) ==
    IF path \notin DOMAIN acc.sprites
    THEN acc
    ELSE compare(acc, path, vanilla_hash,
                 image_hash(acc.sprites[path], files[path]))

\* The loop of check_completion; acc holds the registry, prev_hash, and
\* whether the loop has returned or raised.
RECURSIVE completion_scan(_, _, _)
completion_scan(acc, list, vanilla_hash) ==
    IF Len(list) = 0 \/ acc.done
    THEN acc
    ELSE completion_scan(completion_step(acc, joinpath(sprite_path, Head(list)),
                                         vanilla_hash),
                         Tail(list), vanilla_hash)

\* check_completion(duplicates, vanilla_hash)
check_completion(sp, dups, vanilla_hash) ==
    completion_scan([sprites |-> sp, ok |-> TRUE, ret |-> TRUE, done |-> FALSE,
                     prev_hash |-> ""],
                    dups, vanilla_hash)

\* The callers pass a group of the duplicate map, a set, with a hash string.
CheckCompletion ==
    \E group \in DOMAIN duplicates, vanilla_hash \in HashKeys :
    \E order \in IterationOrders(duplicates[group], DOMAIN sprites) :
        LET r == check_completion(sprites, order, vanilla_hash) IN
        /\ sprites' = r.sprites
        /\ last' = Call("check_completion", <<duplicates[group], vanilla_hash>>,
                        r.ok, r.ret,
                        IF group = vanilla_hash THEN AfterPropagate(vanilla_hash)
                                                ELSE <<>>)
        /\ UNCHANGED <<sheets, files, clock, edits, s_by_collection, s_by_animation,
                       duplicates>>

\* The keys of self.duplicates in dict order.
dict_keys ==
    SelectSeq(DuplicateOrder, LAMBDA h : h \in DOMAIN duplicates)

\* The test of get_duplicates with the threshold one lower.
any_member(loaded_sprites) == Len(loaded_sprites) > 0

\* The test of get_duplicates with the threshold one higher.
more_than_two(loaded_sprites) == Len(loaded_sprites) > 2

\* The test both branches of get_duplicates apply to a sorted group.
enough_members(loaded_sprites) == Len(loaded_sprites) > 1

\* The entry get_duplicates makes for a group, r being what
\* sorted_duplicates returned for it.
keep_group(acc, image_hash_key, r) ==
    IF ~r.ok
    THEN [sprites |-> r.sprites, ok |-> FALSE, ret |-> EmptyDict]
    ELSE [sprites |-> r.sprites, ok |-> TRUE,
          ret |-> IF enough_members(r.ret)
                  THEN (image_hash_key :> r.ret) @@ acc.ret
                  ELSE acc.ret]

\* get_duplicates(""): the dict comprehension over every group.
RECURSIVE all_groups_scan(_, _, _)
all_groups_scan(acc, hashes, orders) ==
    IF Len(hashes) = 0 \/ ~acc.ok
    THEN acc
    ELSE all_groups_scan(
             keep_group(acc, Head(hashes),
                        sorted_duplicates(acc.sprites, Head(hashes),
                                          orders[Head(hashes)])),
             Tail(hashes), orders)

\* One iteration of the loop over the animation's paths: the first group
\* that holds the path, if any.
animation_step(acc, path, orders) ==
    LET found == SelectSeq(dict_keys, LAMBDA h : path \in duplicates[h]) IN
    IF Len(found) = 0
    THEN acc
    ELSE keep_group(acc, Head(found),
                    sorted_duplicates(acc.sprites, Head(found),
                                      orders[Head(found)]))

\* get_duplicates(name): the loop over the animation's paths.
RECURSIVE animation_scan(_, _, _)
animation_scan(acc, paths, orders) ==
    IF Len(paths) = 0 \/ ~acc.ok
    THEN acc
    ELSE animation_scan(animation_step(acc, Head(paths), orders),
                        Tail(paths), orders)

\* Reading a defaultdict(list) at a key it does not hold inserts the key.
defaultdict_get(dd, key) == IF key \in DOMAIN dd THEN dd[key] ELSE <<>>

defaultdict_touch(dd, key) == IF key \in DOMAIN dd THEN dd ELSE dd @@ (key :> <<>>)

\* What get_duplicates leaves and returns, r being the result of its loop.
with_index(r, sba) ==
    [sprites |-> r.sprites, s_by_animation |-> sba, ok |-> r.ok, ret |-> r.ret]

\* get_duplicates(animation_name)
get_duplicates(sp, sba, animation_name, orders) ==
    IF animation_name = ""
    THEN with_index(all_groups_scan([sprites |-> sp, ok |-> TRUE,
                                     ret |-> EmptyDict],
                                    dict_keys, orders),
                    sba)
    ELSE with_index(animation_scan([sprites |-> sp, ok |-> TRUE,
                                    ret |-> EmptyDict],
                                   defaultdict_get(sba, animation_name), orders),
                    defaultdict_touch(sba, animation_name))

\* Animation names the wizard may be opened with: "" for all, a loaded
\* folder, and a folder of which nothing is loaded.
AnimationNames == {"", "Run", "Ghost"}

\* One iteration order for every group among hs.
RECURSIVE OrdersOf(_)
OrdersOf(hs) ==
    IF hs = {} THEN {EmptyDict}
    ELSE LET h == CHOOSE x \in hs : TRUE IN
         {(h :> o) @@ rest : o \in IterationOrders(duplicates[h], DOMAIN sprites),
                              rest \in OrdersOf(hs \ {h})}

\* The groups get_duplicates(animation_name) iterates.
IteratedGroups(animation_name) ==
    IF animation_name = "" THEN DOMAIN duplicates
    ELSE {h \in DOMAIN duplicates :
             \E p \in Range(defaultdict_get(s_by_animation, animation_name)) :
                 p \in duplicates[h]}

GetDuplicates ==
    \E animation_name \in AnimationNames :
    \E orders \in OrdersOf(IteratedGroups(animation_name)) :
        LET r == get_duplicates(sprites, s_by_animation, animation_name, orders) IN
        /\ sprites' = r.sprites
        /\ s_by_animation' = r.s_by_animation
        /\ last' = Call("get_duplicates", animation_name, r.ok, r.ret, <<>>)
        /\ UNCHANGED <<sheets, files, clock, edits, s_by_collection, duplicates>>

(***************************************************************************)
(* SpriteHandler.propagate_main_copy.  A save may fail (OSError: the       *)
(* target is locked or read-only): "unwritable" are the files whose save   *)
(* fails in this call, and the failed save leaves the file as it was, or   *)
(* truncated.                                                              *)
(***************************************************************************)
\* dupe_im.save, writing to the main's path.
save_over_main(fs, path, main, px, clk) == [fs EXCEPT ![main] = ImageFile(px, clk)]

\* The paste at the crop offset taken from the top of the image.
paste_main_top_origin(dupe_px, main_im, dupe_sprite) ==
    paste(dupe_px, main_im, dupe_sprite.xr, dupe_sprite.yr)

\* The paste of propagate_main_copy into the sibling's image.
paste_main(dupe_px, main_im, dupe_sprite) ==
    paste(dupe_px, main_im,
          dupe_sprite.xr, Height(dupe_px) - dupe_sprite.yr - dupe_sprite.h)

\* A save that leaves the file's modification time as it was.
save_keeping_mtime(fs, path, main, px, clk) ==
    [fs EXCEPT ![path] = ImageFile(px, fs[path].mtime)]

\* dupe_im.save(path)
save(fs, path, main, px, clk) == [fs EXCEPT ![path] = ImageFile(px, clk)]

\* The loop's test for a member it passes over, without the test on main.
skipped_unless_loaded(sp, path, main) == path \notin DOMAIN sp

\* The loop's test for a member it passes over: the main itself and any
\* member that is not loaded.
skipped(sp, path, main) == path = main \/ path \notin DOMAIN sp

\* The loop over the group from "list" on, its saves stamped clk: the files
\* afterwards and how far it got.
RECURSIVE propagate_scan(_, _, _, _, _, _, _, _, _)
propagate_scan(sp, fs, clk, main, main_im, list, unwritable, truncates, written) ==
    IF Len(list) = 0
    THEN [files |-> fs, clock |-> clk, ok |-> TRUE, written |-> written,
          failed |-> {}, cause |-> "", pending |-> {}]
    ELSE LET path == Head(list) IN
         IF skipped(sp, path, main)
         THEN propagate_scan(sp, fs, clk, main, main_im, Tail(list),
                             unwritable, truncates, written)
         ELSE LET pending == {p \in Range(Tail(list)) : ~skipped(sp, p, main)} IN
              IF fs[path].kind # "image"
              THEN [files |-> fs, clock |-> clk, ok |-> FALSE, written |-> written,
                    failed |-> {path}, cause |-> "open", pending |-> pending]
              ELSE IF path \in unwritable
              THEN [files |-> IF truncates
                              THEN [fs EXCEPT ![path] =
                                       [kind |-> "corrupt", px |-> <<>>,
                                        mtime |-> clk]]
                              ELSE fs,
                    clock |-> clk, ok |-> FALSE, written |-> written,
                    failed |-> {path}, cause |-> "save", pending |-> pending]
              ELSE propagate_scan(sp,
                       save(fs, path, main,
                            paste_main(fs[path].px, main_im, sp[path]), clk),
                       clk, main, main_im, Tail(list), unwritable, truncates,
                       written \cup {path})

NoProgress(fs, clk) ==
    [files |-> fs, clock |-> clk, ok |-> FALSE, written |-> {}, failed |-> {},
     cause |-> "", pending |-> {}]

\* propagate_main_copy as a transaction: a failed run restores the files.
propagate_with_rollback(sp, fs, clk, vanilla_hash, main_arg, order, unwritable, truncates) ==
    LET main == rectify_sprite_path(main_arg) IN
    IF main \notin DOMAIN sp
    THEN [sprites |-> sp, main_im |-> <<>>, out |-> NoProgress(fs, clk)]
    ELSE LET c == content(sp[main], fs[main])
             sp2 == [sp EXCEPT ![main] = c.s] IN
         IF ~c.ok \/ vanilla_hash \notin DOMAIN duplicates
         THEN [sprites |-> sp2, main_im |-> <<>>, out |-> NoProgress(fs, clk)]
         ELSE LET run == propagate_scan(sp2, fs, clk + 1, main, c.val, order,
                                        unwritable, truncates, {}) IN
              [sprites |-> sp2, main_im |-> c.val,
               out |-> IF run.ok THEN run ELSE [run EXCEPT !.files = fs]]

\* propagate_main_copy(vanilla_hash, main); order iterates the group.
propagate_main_copy(sp, fs, clk, vanilla_hash, main_arg, order, unwritable, truncates) ==
    LET main == rectify_sprite_path(main_arg) IN
    IF main \notin DOMAIN sp
    THEN [sprites |-> sp, main_im |-> <<>>, out |-> NoProgress(fs, clk)]
    ELSE LET c == content(sp[main], fs[main])
             sp2 == [sp EXCEPT ![main] = c.s] IN
         IF ~c.ok \/ vanilla_hash \notin DOMAIN duplicates
         THEN [sprites |-> sp2, main_im |-> <<>>, out |-> NoProgress(fs, clk)]
         ELSE [sprites |-> sp2, main_im |-> c.val,
               out |-> propagate_scan(sp2, fs, clk + 1, main, c.val, order,
                                      unwritable, truncates, {})]

\* The siblings propagate_main_copy(vanilla_hash, main) is to overwrite.
Targets(vanilla_hash, main) ==
    IF vanilla_hash \in DOMAIN duplicates
    THEN {p \in duplicates[vanilla_hash] : p # main /\ p \in DOMAIN sprites}
    ELSE {}

\* The window passes as main a member of the group, relative or resolved: here
\* the sprites of the group the user works on, and any sprite for a hash
\* that is no key.
MainInputs(vanilla_hash) ==
    IF vanilla_hash = DuplicateOrder[1] THEN {I1, joinpath(sprite_path, F1)}
    ELSE IF vanilla_hash = DuplicateOrder[2] THEN {I3}
    ELSE {I1}

Propagate ==
    \E vanilla_hash \in HashKeys :
    \E main \in MainInputs(vanilla_hash) :
    \E order \in IterationOrders(IF vanilla_hash \in DOMAIN duplicates
                                 THEN duplicates[vanilla_hash] ELSE {},
                                 Targets(vanilla_hash, rectify_sprite_path(main))) :
    \E unwritable \in {{}} \cup {{p} : p \in Lockable \cap
                                      Targets(vanilla_hash, rectify_sprite_path(main))} :
    \E truncates \in IF unwritable = {} THEN {FALSE} ELSE BOOLEAN :
        LET r == propagate_main_copy(sprites, files, clock, vanilla_hash, main,
                                     order, unwritable, truncates) IN
        /\ clock < MaxClock
        /\ sprites' = r.sprites
        /\ files' = r.out.files
        /\ clock' = IF r.out.files = files THEN clock ELSE clock + 1
        /\ last' = Call("propagate_main_copy",
                        <<vanilla_hash, rectify_sprite_path(main)>>,
                        r.out.ok, r.main_im,
                        [written |-> r.out.written, failed |-> r.out.failed,
                         cause |-> r.out.cause, pending |-> r.out.pending,
                         again |-> /\ last.op = "propagate_main_copy"
                                   /\ last.ok
                                   /\ last.arg = <<vanilla_hash,
                                                   rectify_sprite_path(main)>>])
        /\ UNCHANGED <<sheets, edits, s_by_collection, s_by_animation, duplicates>>

(***************************************************************************)
(* util.min_dimension.                                                     *)
(***************************************************************************)
\* ceil(log2(n)) for n >= 1: the least k with 2^k >= n.
RECURSIVE ceil_log2(_)
ceil_log2(n) == IF n <= 1 THEN 0 ELSE 1 + ceil_log2((n + 1) \div 2)

\* min_dimension(l) = 2 ** ceil(log2(l - 1)); math.log2 raises ValueError
\* (math domain error) for an argument that is not positive.
min_dimension(l) ==
    IF l - 1 <= 0
    THEN [ok |-> FALSE, val |-> 0]
    ELSE [ok |-> TRUE, val |-> 2 ^ ceil_log2(l - 1)]

MinDimension ==
    \E l \in 0..MaxExtent :
        /\ last' = Call("min_dimension", l, min_dimension(l).ok,
                        min_dimension(l).val, <<>>)
        /\ UNCHANGED <<files, clock, edits, sprites, s_by_collection,
                       s_by_animation, duplicates, sheets>>

(***************************************************************************)
(* SpriteHandler.pack_sheets.  "collections" is the enablement dict in its *)
(* insertion order, as pairs <<name, enabled>>.  "unwritable" are the      *)
(* collections whose sheet cannot be saved in this call (OSError: the file *)
(* is open in another program); the failed save leaves the file as it was. *)
(***************************************************************************)
Max(a, b) == IF a > b THEN a ELSE b

\* One pass of the loop that computes the extent of the packed sprites.
extent_step(acc, sprite) ==
    IF sprite.flipped
    THEN [w |-> Max(acc.w, sprite.x + sprite.h),
          h |-> Max(acc.h, sprite.y + sprite.w)]
    ELSE [w |-> Max(acc.w, sprite.x + sprite.w),
          h |-> Max(acc.h, sprite.y)]

RECURSIVE extent_scan(_, _, _)
extent_scan(acc, list, sp) ==
    IF Len(list) = 0
    THEN acc
    ELSE extent_scan(extent_step(acc, sp[Head(list)]), Tail(list), sp)

\* Image.new("RGBA", (w, h)): a transparent image.
Image_new(w, h) == [r \in 1..h |-> [c \in 1..w |-> 0]]

\* im.rotate(90, expand=True).transpose(Image.FLIP_LEFT_RIGHT): the pixel at
\* 0-based (x, y) of a w x h image moves to (h - 1 - y, w - 1 - x).
rotate_flip(im) ==
    [r \in 1..Width(im) |->
        [c \in 1..Height(im) |-> im[Height(im) + 1 - c][Width(im) + 1 - r]]]

\* The top coordinate the sprite is pasted at in a sheet of height H.
paste_top(H, sprite) ==
    H - sprite.y - (IF sprite.flipped THEN sprite.w ELSE sprite.h)

\* One pass of the paste loop; c is what sprite.content returned or raised.
paste_step(acc, path, c) ==
    IF ~c.ok
    THEN [acc EXCEPT !.sp[path] = c.s, !.ok = FALSE]
    ELSE [acc EXCEPT !.sp[path] = c.s,
                     !.out = paste(acc.out,
                                   IF c.s.flipped THEN rotate_flip(c.val)
                                                  ELSE c.val,
                                   c.s.x, paste_top(Height(acc.out), c.s))]

RECURSIVE paste_scan(_, _, _)
paste_scan(acc, list, fs) ==
    IF Len(list) = 0 \/ ~acc.ok
    THEN acc
    ELSE paste_scan(paste_step(acc, Head(list),
                               content(acc.sp[Head(list)], fs[Head(list)])),
                    Tail(list), fs)

SheetFile(px) == [kind |-> "image", px |-> px]

\* The except branch taken as "pass": the loop goes on and the call reports
\* success.
save_failed_ignored(acc, collection_name) ==
    [acc EXCEPT !.failed = acc.failed \cup {collection_name}]

\* out.save raised OSError: "return False".
save_failed(acc, collection_name) ==
    [acc EXCEPT !.status = "false", !.cause = "save",
                !.failed = acc.failed \cup {collection_name}]

\* out.save(output_path.joinpath(collection_name + ".png")) of the sheet p.
save_sheet(acc, collection_name, p, unwritable) ==
    IF ~p.ok
    THEN [acc EXCEPT !.sp = p.sp, !.status = "raised", !.cause = "content"]
    ELSE IF collection_name \in unwritable
    THEN save_failed([acc EXCEPT !.sp = p.sp], collection_name)
    ELSE [acc EXCEPT !.sp = p.sp,
                     !.sheets = (collection_name :> SheetFile(p.out)) @@ acc.sheets,
                     !.written = Append(acc.written, collection_name)]

\* The sheet of one enabled collection from its extent e on.
build_sheet(acc, collection_name, ids, W, H, fs, unwritable) ==
    IF ~W.ok \/ ~H.ok
    THEN [acc EXCEPT !.status = "raised", !.cause = "dimension"]
    ELSE save_sheet([acc EXCEPT !.canvas = (collection_name :> <<W.val, H.val>>)
                                           @@ acc.canvas],
                    collection_name,
                    paste_scan([sp |-> acc.sp, out |-> Image_new(W.val, H.val),
                                ok |-> TRUE], ids, fs),
                    unwritable)

\* The body of the loop for one enabled collection; e is the extent.
pack_collection(acc, collection_name, e, fs, unwritable) ==
    build_sheet([acc EXCEPT !.sbc = defaultdict_touch(acc.sbc, collection_name),
                            !.attempted = Append(acc.attempted, collection_name)],
                collection_name, defaultdict_get(acc.sbc, collection_name),
                min_dimension(e.w), min_dimension(e.h), fs, unwritable)

RECURSIVE pack_scan(_, _, _, _)
pack_scan(acc, collections, fs, unwritable) ==
    IF Len(collections) = 0 \/ acc.status # "run"
    THEN acc
    ELSE IF ~Head(collections)[2]
    THEN pack_scan(acc, Tail(collections), fs, unwritable)
    ELSE pack_scan(pack_collection(acc, Head(collections)[1],
                       extent_scan([w |-> 0, h |-> 0],
                                   defaultdict_get(acc.sbc, Head(collections)[1]),
                                   acc.sp),
                       fs, unwritable),
                   Tail(collections), fs, unwritable)

\* pack_sheets(collections, output_path): status "run" at the end is
\* "return True", "false" is "return False", "raised" an exception that is
\* not caught.
pack_sheets(sp, sbc, sh, fs, collections, unwritable) ==
    pack_scan([sp |-> sp, sbc |-> sbc, sheets |-> sh, status |-> "run",
               attempted |-> <<>>, written |-> <<>>, failed |-> {},
               canvas |-> EmptyDict, cause |-> ""],
              collections, fs, unwritable)

\* The enablement dicts of the window: the collections in the order the
\* folders were loaded in, each enabled or not, and one that a saved
\* configuration added a collection to that no loaded folder has.
Enablements ==
    {[i \in 1..3 |-> << <<"Knight", "Cloak", "Sprint">>[i], f[i] >>] :
        f \in [1..3 -> BOOLEAN]}
    \cup {<< <<"Sprint", TRUE>>, <<"Knight", TRUE>>, <<"Cloak", FALSE>> >>,
          << <<"Sprint", TRUE>>, <<"Ghost", TRUE>> >>}

Enabled(collections) ==
    {collections[i][1] : i \in {j \in 1..Len(collections) : collections[j][2]}}

PackSheets ==
    \E collections \in Enablements :
    \E unwritable \in SUBSET (Enabled(collections) \cap {"Knight", "Sprint"}) :
        LET r == pack_sheets(sprites, s_by_collection, sheets, files,
                             collections, unwritable) IN
        /\ sprites' = r.sp
        /\ s_by_collection' = r.sbc
        /\ sheets' = r.sheets
        /\ last' = Call("pack_sheets", collections, r.status # "raised",
                        r.status = "run",
                        [attempted |-> r.attempted, written |-> r.written,
                         failed |-> r.failed, canvas |-> r.canvas,
                         cause |-> r.cause, unwritable |-> unwritable])
        /\ UNCHANGED <<files, clock, edits, s_by_animation, duplicates>>

(***************************************************************************)
(* SpriteHandler: queries on the animation index.                          *)
(***************************************************************************)
\* The animation names the window asks for: those of the sprite folders and
\* one that no folder has.
QueryNames == {"Idle", "Run", "Fall", "Dash", "Ghost"}

\* The file names of the animation from the last of the index to the first.
get_animation_sprites_reversed(sp, sba, animation_name) ==
    [ret |-> [i \in 1..Len(defaultdict_get(sba, animation_name)) |->
                 name(sp[defaultdict_get(sba, animation_name)[
                             Len(defaultdict_get(sba, animation_name)) + 1 - i]].path)],
     s_by_animation |-> defaultdict_touch(sba, animation_name)]

\* get_animation_sprites(animation): the file names, in index order.
get_animation_sprites(sp, sba, animation_name) ==
    [ret |-> [i \in 1..Len(defaultdict_get(sba, animation_name)) |->
                 name(sp[defaultdict_get(sba, animation_name)[i]].path)],
     s_by_animation |-> defaultdict_touch(sba, animation_name)]

GetAnimationSprites ==
    \E animation_name \in QueryNames :
        /\ s_by_animation' =
               get_animation_sprites(sprites, s_by_animation,
                                     animation_name).s_by_animation
        /\ last' = Call("get_animation_sprites", animation_name, TRUE,
                        get_animation_sprites(sprites, s_by_animation,
                                              animation_name).ret,
                        [descriptors |-> DescriptorsLoaded])
        /\ UNCHANGED <<files, clock, edits, sprites, s_by_collection,
                       duplicates, sheets>>

(***************************************************************************)
(* SpriteHandler.loaded_animations, its generator consumed at once as the  *)
(* window does.  The result is taken as the set of names it yields.        *)
(***************************************************************************)
\* A lookup that takes a collection the dict does not have as enabled.
collections_get_or_true(collections, key) ==
    \A i \in 1..Len(collections) : collections[i][1] = key => collections[i][2]

\* collections.get(key, False)
collections_get(collections, key) ==
    \E i \in 1..Len(collections) : collections[i][1] = key /\ collections[i][2]

\* all(collections.get(self.__sprites[path].collection, False) for path in paths)
all_enabled(sp, collections, paths) ==
    \A i \in 1..Len(paths) : collections_get(collections, sp[paths[i]].collection)

loaded_animations(sp, sba, collections) ==
    {anim \in DOMAIN sba : all_enabled(sp, collections, sba[anim])}

LoadedAnimations ==
    \E collections \in Enablements :
        /\ last' = Call("loaded_animations", collections, TRUE,
                        loaded_animations(sprites, s_by_animation, collections),
                        <<>>)
        /\ UNCHANGED <<files, clock, edits, sprites, s_by_collection,
                       s_by_animation, duplicates, sheets>>

(***************************************************************************)
(* Specifications.  Spec runs the handler from its construction.  The      *)
(* others start from a registry and duplicate map already loaded (the      *)
(* state the window is in once folders are open) and take the steps of     *)
(* one part of the program.                                                *)
(***************************************************************************)
Next ==
    \/ LoadSpriteInfo
    \/ LoadDuplicateInfo
    \/ Rewrite
    \/ RewriteCorrupt
    \/ ImageHash
    \/ SortedDuplicates
    \/ CheckCompletion
    \/ GetDuplicates
    \/ Propagate
    \/ MinDimension
    \/ PackSheets
    \/ GetAnimationSprites
    \/ LoadedAnimations

Spec == Init /\ [][Next]_vars

\* The states after load_sprite_info(paths) and load_duplicate_info(), paths
\* among inputs, over a sprite directory among disks.
InitFrom(inputs, disks) ==
    \E paths \in inputs, disk \in disks :
        LET r == load_sprite_info(EmptyDict, EmptyDict, EmptyDict, paths) IN
        /\ files = [p \in FilePaths |-> ImageFile(disk[p], 0)]
        /\ clock = 0
        /\ edits = 0
        /\ sprites = r.sprites
        /\ s_by_collection = r.s_by_collection
        /\ s_by_animation = r.s_by_animation
        /\ duplicates = load_duplicate_info
        /\ sheets = EmptyDict
        /\ last = Call("load_duplicate_info", <<>>, TRUE, <<>>, <<>>)

InitLoaded ==
    InitFrom({ <<KnightPath>>, <<SprintPath>>, <<KnightPath, SprintPath>> }, Disks)

NextSprite == Rewrite \/ RewriteCorrupt \/ ImageHash

SpecSprite == InitFrom({ <<KnightPath>> }, Disks) /\ [][NextSprite]_vars

NextPropagate == Rewrite \/ RewriteCorrupt \/ Propagate

SpecPropagate == InitLoaded /\ [][NextPropagate]_vars

NextSorted == Rewrite \/ RewriteCorrupt \/ SortedDuplicates

SpecSorted == InitLoaded /\ [][NextSorted]_vars

NextCompletion == Rewrite \/ RewriteCorrupt \/ CheckCompletion

SpecCompletion == InitLoaded /\ [][NextCompletion]_vars

NextGroups == Rewrite \/ RewriteCorrupt \/ GetDuplicates

SpecGroups == InitLoaded /\ [][NextGroups]_vars

NextPack == Rewrite \/ PackSheets

SpecPack ==
    InitFrom({ <<KnightPath, SprintPath>> }, {VanillaDisk})
        /\ [][NextPack]_vars

NextLoad == LoadSpriteInfo \/ GetAnimationSprites

SpecLoad == Init /\ [][NextLoad]_vars

NextAnimations == GetAnimationSprites \/ LoadedAnimations

SpecAnimations ==
    InitFrom({ <<KnightPath>>, <<SprintPath>>, <<KnightPath, SprintPath>> },
             {VanillaDisk})
        /\ [][NextAnimations]_vars

NextFollowUp == Rewrite \/ Propagate \/ CheckCompletion \/ SortedDuplicates

SpecFollowUp == InitFrom({ <<KnightPath>> }, Disks) /\ [][NextFollowUp]_vars

NextDimension == MinDimension

SpecDimension == Init /\ [][NextDimension]_vars

(***************************************************************************)
(* The claims.                                                             *)
(***************************************************************************)
\* The hash of the sprite's crop region of its source file as it is on disk.
DiskHash(p) == pixel_hash(crop_of(files[p].px, sprites[p]))

\* C1: every successful content_hash() call returns the hash of the crop
\* region of the source file as it is on disk at the time of the call, never
\* a hash cached from an earlier version of the file.
C1_HashIsOfFileOnDisk ==
    (last.op = "image_hash" /\ last.ok) =>
        /\ files[last.arg].kind = "image"
        /\ last.ret = DiskHash(last.arg)

\* C2: of two consecutive successful content_hash() calls on a sprite whose
\* file is not modified in between, the second returns the hash the first
\* returned and does not open the source file.
C2_SecondCallIsCacheHit ==
    (last.op = "image_hash" /\ last.ok /\ last.aux.after # <<>>) =>
        /\ last.ret = last.aux.after[1]
        /\ ~last.aux.opened

\* A successful call that directly follows a successful call on the same
\* sprite, the file being a readable image.
C2_Witness ==
    /\ last.op = "image_hash"
    /\ last.ok
    /\ last.aux.after # <<>>
    /\ files[last.arg].kind = "image"
    /\ last.ret = DiskHash(last.arg)

\* The fields of a sprite the descriptor gives (all but its cache).
Described(s) == [s EXCEPT !.mtime = <<>>, !.content = <<>>, !.hash = <<>>]

\* C3: propagate(canonical_hash, main) writes only the files of the loaded
\* members of the group other than main: every other file (the main's, those
\* of unloaded members, those of sprites outside the group), the registry
\* and its two indexes, and the duplicate map are as they were.
C3_PropagateFrame ==
    [][last'.op = "propagate_main_copy" =>
        /\ \A p \in DOMAIN files :
              p \notin Targets(last'.arg[1], last'.arg[2]) => files'[p] = files[p]
        /\ DOMAIN sprites' = DOMAIN sprites
        /\ \A p \in DOMAIN sprites : Described(sprites'[p]) = Described(sprites[p])
        /\ s_by_collection' = s_by_collection
        /\ s_by_animation' = s_by_animation
        /\ duplicates' = duplicates]_vars

\* A run that wrote siblings, of a group with an unloaded member, while a
\* sprite outside the group is loaded.
C3_Witness ==
    /\ last.op = "propagate_main_copy"
    /\ last.ok
    /\ last.aux.written # {}
    /\ \E p \in duplicates[last.arg[1]] : p \notin DOMAIN sprites
    /\ \E q \in DOMAIN sprites : q \notin duplicates[last.arg[1]]

\* The loaded members of the group all have the main's crop width and height.
SameCropSize(vanilla_hash, main) ==
    \A m \in Targets(vanilla_hash, main) :
        sprites[m].w = sprites[main].w /\ sprites[m].h = sprites[main].h

\* C4: after propagate(canonical_hash, main) completes without error on a
\* group whose loaded members all have the main's crop width and height, the
\* crop region of every loaded member's file, read at the member's own
\* offset, is the main sprite's crop content (the content its Sprite serves,
\* which is also the crop of the main's own file when that file is readable).
C4_SiblingsHoldMainContent ==
    (/\ last.op = "propagate_main_copy"
     /\ last.ok
     /\ SameCropSize(last.arg[1], last.arg[2])) =>
        /\ \A m \in Targets(last.arg[1], last.arg[2]) :
              /\ files[m].kind = "image"
              /\ crop_of(files[m].px, sprites[m]) = last.ret
        /\ sprites[last.arg[2]].content = <<last.ret>>
        /\ files[last.arg[2]].kind = "image" =>
              crop_of(files[last.arg[2]].px, sprites[last.arg[2]]) = last.ret

\* A completed run over same-sized members that wrote a sibling whose crop
\* offset is not the main's.
C4_Witness ==
    /\ last.op = "propagate_main_copy"
    /\ last.ok
    /\ SameCropSize(last.arg[1], last.arg[2])
    /\ \E m \in last.aux.written :
          <<sprites[m].xr, sprites[m].yr>> #
              <<sprites[last.arg[2]].xr, sprites[last.arg[2]].yr>>

\* C5: a second propagate(canonical_hash, main) directly after a completed
\* first one, in which no write fails, leaves every file's pixel content as
\* the first run left it.
C5_PropagateIdempotent ==
    [][(/\ last.op = "propagate_main_copy" /\ last.ok
        /\ last'.op = "propagate_main_copy" /\ last'.arg = last.arg
        /\ last'.aux.cause # "save") =>
           \A p \in DOMAIN files :
               files'[p].kind = files[p].kind /\ files'[p].px = files[p].px]_vars

\* A completed second run that wrote siblings again.
C5_Witness ==
    /\ last.op = "propagate_main_copy"
    /\ last.ok
    /\ last.aux.again
    /\ last.aux.written # {}

\* Image px shows main_im where the paste for sprite s puts it (the part of
\* main_im that falls inside the image).
ShowsMainAt(px, main_im, s) ==
    \A y \in 1..Height(main_im) : \A x \in 1..Width(main_im) :
        LET row == Height(px) - s.yr - s.h + y
            col == s.xr + x IN
        (row \in 1..Height(px) /\ col \in 1..Width(px)) =>
            px[row][col] = main_im[y][x]

\* C6: when the write to one sibling fails during propagate, the operation
\* ends with an error, every sibling written before the failure holds the
\* main's content (nothing is rolled back), and every sibling not yet
\* reached is as it was before the call.
C6_PartialFailureKeepsWrites ==
    [][(last'.op = "propagate_main_copy" /\ last'.aux.cause = "save") =>
        /\ ~last'.ok
        /\ \A p \in last'.aux.written :
              /\ files'[p].kind = "image"
              /\ files'[p].mtime # files[p].mtime
              /\ ShowsMainAt(files'[p].px, last'.ret, sprites[p])
        /\ \A p \in last'.aux.pending : files'[p] = files[p]]_vars

\* A run that failed at a write after writing one sibling and before
\* reaching another.
C6_Witness ==
    /\ last.op = "propagate_main_copy"
    /\ last.aux.cause = "save"
    /\ last.aux.written # {}
    /\ last.aux.pending # {}

\* The loaded members of a set of paths.
LoadedOf(paths) == paths \cap DOMAIN sprites

\* The content hash sprite p serves now, as a string; "" when the call fails.
CurrentHash(p) ==
    LET r == image_hash(sprites[p], files[p]) IN
    IF r.ok THEN str(r.val) ELSE ""

\* list holds exactly the loaded members of group vanilla_hash, each once,
\* every edited member before every vanilla one.
IsSortedGroup(list, vanilla_hash) ==
    /\ Range(list) = LoadedOf(duplicates[vanilla_hash])
    /\ Len(list) = Cardinality(LoadedOf(duplicates[vanilla_hash]))
    /\ \A i, j \in 1..Len(list) :
          (CurrentHash(list[i]) = vanilla_hash /\ CurrentHash(list[j]) # vanilla_hash)
              => j < i

C8_CompleteIffSameAndEdited ==
    (/\ last.op = "check_completion"
     /\ last.ok
     /\ \A p \in LoadedOf(last.arg[1]) : CurrentHash(p) # "") =>
        (last.ret <=>
            /\ \A p, q \in LoadedOf(last.arg[1]) : CurrentHash(p) = CurrentHash(q)
            /\ \A p \in LoadedOf(last.arg[1]) : CurrentHash(p) # last.arg[2])

\* C9: when two loaded members of group_paths have differing current content
\* hashes, is_complete(group_paths, canonical_hash) returns false, whatever
\* the iteration order, the canonical hash and the unloaded members.
C9_DifferingHashesIncomplete ==
    (/\ last.op = "check_completion"
     /\ last.ok
     /\ \E p, q \in LoadedOf(last.arg[1]) :
           /\ CurrentHash(p) # "" /\ CurrentHash(q) # ""
           /\ CurrentHash(p) # CurrentHash(q)) =>
        last.ret = FALSE

\* A call that returned over two loaded members with differing hashes, none
\* of them the vanilla hash passed, and an unloaded member.
C9_Witness ==
    /\ last.op = "check_completion"
    /\ last.ok
    /\ last.ret = FALSE
    /\ \E p, q \in LoadedOf(last.arg[1]) :
          /\ CurrentHash(p) # "" /\ CurrentHash(q) # ""
          /\ CurrentHash(p) # CurrentHash(q)
          /\ CurrentHash(p) # last.arg[2] /\ CurrentHash(q) # last.arg[2]
    /\ last.arg[1] \ DOMAIN sprites # {}

\* C10: every entry groups_for_animation(name) returns, for any name and the
\* empty string, maps a canonical hash to sorted_group(hash) (the loaded
\* members of the group, each once, edited before vanilla: a list is a
\* result of sorted_group for some iteration order exactly when it is one
\* of these) and has more than one loaded member.
C10_EntriesAreSortedGroups ==
    (last.op = "get_duplicates" /\ last.ok) =>
        \A h \in DOMAIN last.ret :
            /\ h \in DOMAIN duplicates
            /\ Cardinality(LoadedOf(duplicates[h])) > 1
            /\ IsSortedGroup(last.ret[h], h)

\* A result with an entry, returned while another group has a single loaded
\* member and is left out.
C10_Witness ==
    /\ last.op = "get_duplicates"
    /\ last.ok
    /\ DOMAIN last.ret # {}
    /\ \E h \in DOMAIN duplicates :
          /\ Cardinality(LoadedOf(duplicates[h])) = 1
          /\ h \notin DOMAIN last.ret
    /\ last.arg = ""

\* The groups groups_for_animation(name) has to return: with the empty name
\* every group with more than one loaded member, otherwise those of them
\* that hold a sprite path of the animation.
DueGroups(animation_name) ==
    {h \in DOMAIN duplicates :
        /\ Cardinality(LoadedOf(duplicates[h])) > 1
        /\ animation_name # "" =>
              \E p \in DOMAIN sprites :
                  animation(p) = animation_name /\ p \in duplicates[h]}

\* C11: groups_for_animation(A) returns every duplicate group that holds a
\* sprite path of animation A and has more than one loaded member; with the
\* empty name it returns every group that has more than one loaded member.
C11_GroupsComplete ==
    (last.op = "get_duplicates" /\ last.ok) =>
        DueGroups(last.arg) \subseteq DOMAIN last.ret

\* A call for a named animation that returned a group while another group,
\* with more than one loaded member, holds no path of the animation; and a
\* call with the empty name that returned two groups.
C11_Witness ==
    /\ last.op = "get_duplicates"
    /\ last.ok
    /\ \/ /\ last.arg = "Run"
          /\ DueGroups("Run") # {}
          /\ DueGroups("") \ DueGroups("Run") # {}
       \/ /\ last.arg = ""
          /\ Cardinality(DueGroups("")) > 1

RECURSIVE IsPowerOfTwo(_)
IsPowerOfTwo(d) == d >= 1 /\ (d = 1 \/ (d % 2 = 0 /\ IsPowerOfTwo(d \div 2)))

\* C12: for every extent e >= 2 the canvas dimension derived from e is a
\* power of two, is at least e, and is the smallest such power of two.
C12_SmallestPowerOfTwo ==
    (last.op = "min_dimension" /\ last.arg >= 2) =>
        /\ last.ok
        /\ IsPowerOfTwo(last.ret)
        /\ last.ret >= last.arg
        /\ last.ret \div 2 < last.arg

\* C13: computing the canvas dimension for an extent of 0 and of 1 completes
\* without a math domain error and yields a positive canvas size.
C13_DegenerateExtent ==
    (last.op = "min_dimension" /\ last.arg \in {0, 1}) =>
        /\ last.ok
        /\ last.ret > 0

\* The size a sprite takes in the sheet: (h, w) when flipped, else (w, h).
PlacedSize(s) == IF s.flipped THEN <<s.h, s.w>> ELSE <<s.w, s.h>>

\* C14: for every enabled collection packed, every member sprite's paste
\* rectangle lies inside the canvas: x + pw <= W and y + ph <= H.
C14_PasteInsideCanvas ==
    last.op = "pack_sheets" =>
        \A c \in DOMAIN last.aux.canvas :
            \A p \in Range(s_by_collection[c]) :
                /\ sprites[p].x + PlacedSize(sprites[p])[1] <= last.aux.canvas[c][1]
                /\ sprites[p].y + PlacedSize(sprites[p])[2] <= last.aux.canvas[c][2]

\* The enabled collections of an enablement dict, in its order.
RECURSIVE EnabledOrder(_)
EnabledOrder(collections) ==
    IF Len(collections) = 0 THEN <<>>
    ELSE (IF Head(collections)[2] THEN <<Head(collections)[1]>> ELSE <<>>)
         \o EnabledOrder(Tail(collections))

\* The members of seq before its first member in S.
RECURSIVE Before(_, _)
Before(seq, S) ==
    IF Len(seq) = 0 \/ Head(seq) \in S THEN <<>>
    ELSE <<Head(seq)>> \o Before(Tail(seq), S)

IsWritten(c) ==
    /\ c \in Range(last.aux.written)
    /\ c \in DOMAIN sheets
    /\ sheets[c].kind = "image"

\* C15: a pack_sheets call that returns reports failure exactly when the
\* write of an enabled collection fails; when it reports success every
\* enabled collection's sheet was written, and when it reports failure the
\* sheets written before the failing one remain written.
C15_FailureIffAWriteFailed ==
    (last.op = "pack_sheets" /\ last.ok) =>
        /\ last.ret = (Range(EnabledOrder(last.arg)) \cap last.aux.unwritable = {})
        /\ last.ret = (last.aux.failed = {})
        /\ last.ret => \A c \in Range(EnabledOrder(last.arg)) : IsWritten(c)
        /\ ~last.ret =>
              \A c \in Range(Before(EnabledOrder(last.arg), last.aux.unwritable)) :
                  IsWritten(c)

C15_Witness ==
    /\ last.op = "pack_sheets" /\ last.ok /\ ~last.ret
    /\ Before(EnabledOrder(last.arg), last.aux.unwritable) # <<>>
    /\ last.aux.written # <<>>

\* C16: when the write of one enabled collection fails, pack_sheets still
\* attempts every other enabled collection of the enablement dict before it
\* reports failure.
C16_EveryCollectionAttempted ==
    (last.op = "pack_sheets" /\ last.ok /\ last.aux.failed # {}) =>
        Range(EnabledOrder(last.arg)) \subseteq Range(last.aux.attempted)

\* The descriptors a load call names, and whether their arrays all have one
\* length.
DescriptorsOf(paths) ==
    [i \in 1..Len(paths) |-> DescriptorFiles[rectify_sprite_path(paths[i])]]

EqualLengths(data) ==
    \A f \in RequiredFields : Len(data[f]) = Len(data.spath)

WellFormed(paths) ==
    \A i \in 1..Len(paths) : EqualLengths(DescriptorsOf(paths)[i])

DescribedPaths(paths) ==
    UNION {{joinpath(sprite_path, DescriptorsOf(paths)[i].spath[j]) :
               j \in 1..Len(DescriptorsOf(paths)[i].spath)} : i \in 1..Len(paths)}

\* The index lists exactly the paths of S, each once.
ListsOnce(index, S) ==
    /\ \A k \in DOMAIN index : Range(index[k]) \subseteq S
    /\ \A p \in S :
          Cardinality({<<k, i>> \in UNION {{<<k2, i2>> : i2 \in 1..Len(index[k2])} :
                                              k2 \in DOMAIN index} :
                          index[k][i] = p}) = 1

C18_FailedLoadChangesNothing ==
    (last.op = "load_sprite_info" /\ ~last.ok) =>
        /\ sprites = last.aux.sprites
        /\ s_by_collection = last.aux.s_by_collection
        /\ s_by_animation = last.aux.s_by_animation

C18_Witness ==
    /\ last.op = "load_sprite_info" /\ ~last.ok
    /\ DOMAIN sprites # {}
    /\ rectify_sprite_path(last.arg[Len(last.arg)]) \in DOMAIN DescriptorFiles

\* C19: load_sprite_info on a descriptor whose arrays have unequal lengths
\* fails and creates no sprites.
C19_UnequalArraysRejected ==
    (last.op = "load_sprite_info"
        /\ \A i \in 1..Len(last.arg) :
              /\ rectify_sprite_path(last.arg[i]) \in DOMAIN DescriptorFiles
              /\ RequiredFields \subseteq DOMAIN DescriptorsOf(last.arg)[i]
        /\ ~WellFormed(last.arg)) =>
        /\ ~last.ok
        /\ sprites = last.aux.sprites

\* The animations that have a sprite in the registry, and their sprites.
RegistryAnimations == {animation(p) : p \in DOMAIN sprites}

SpritesIn(anim) == {p \in DOMAIN sprites : animation(p) = anim}

\* C20: loaded_animations(collections) yields an animation of the registry
\* if and only if every sprite of that animation belongs to a collection
\* the dict maps to true; a collection absent from the dict counts as
\* disabled.
C20_EnabledAnimations ==
    last.op = "loaded_animations" =>
        \A anim \in RegistryAnimations :
            anim \in last.ret <=>
                \A p \in SpritesIn(anim) :
                    sprites[p].collection \in Enabled(last.arg)

C20_Witness ==
    /\ last.op = "loaded_animations"
    /\ \E anim \in RegistryAnimations : anim \in last.ret
    /\ \E anim \in RegistryAnimations \ last.ret :
          \E p \in SpritesIn(anim) :
              \A i \in 1..Len(last.arg) : last.arg[i][1] # sprites[p].collection

\* The resolved sprite paths of the descriptors, in load order and array
\* order.
DescriptorOrder(paths) ==
    Flatten([i \in 1..Len(paths) |->
                [j \in 1..Len(DescriptorsOf(paths)[i].spath) |->
                    joinpath(sprite_path, DescriptorsOf(paths)[i].spath[j])]])

\* The loaded sprites of an animation in that order, each at its first place.
AnimationInOrder(paths, anim) ==
    SelectSeq(lunique(DescriptorOrder(paths)),
              LAMBDA p : p \in DOMAIN sprites /\ animation(p) = anim)

\* C21: get_animation_sprites(name) returns the sprites of the animation in
\* descriptor order (descriptor files in load order, entries in array
\* order), each loaded sprite of the animation exactly once.
C21_DescriptorOrder ==
    (last.op = "get_animation_sprites" /\ last.aux.descriptors # <<>>) =>
        /\ Len(last.ret) = Cardinality(SpritesIn(last.arg))
        /\ last.ret = [i \in 1..Len(AnimationInOrder(last.aux.descriptors, last.arg)) |->
                          name(AnimationInOrder(last.aux.descriptors, last.arg)[i])]

C21_Witness ==
    /\ last.op = "get_animation_sprites"
    /\ last.aux.descriptors = <<GrimmPath, KnightPath>>
    /\ last.arg = "Run"
    /\ last.ret = <<name(G1), name(R1)>>

\* The 0-based pixel (x, y) of image im lies in the crop rectangle of s.
InCrop(im, s, x, y) ==
    /\ x >= s.xr /\ x < s.xr + s.w
    /\ y >= Height(im) - s.yr - s.h /\ y < Height(im) - s.yr

\* C22: propagate_main_copy changes, in the file of each sibling it writes,
\* only pixels inside that sibling's own crop rectangle (xr, yr, w, h), also
\* when the main's crop size differs from the sibling's.
C22_OnlyCropRectangleChanges ==
    [][last'.op = "propagate_main_copy" =>
        \A p \in last'.aux.written :
            (files[p].kind = "image" /\ files'[p].kind = "image") =>
                \A y \in 0..(Height(files[p].px) - 1) :
                    \A x \in 0..(Width(files[p].px) - 1) :
                        ~InCrop(files[p].px, sprites[p], x, y) =>
                            PixelAt(files'[p].px, x, y) = PixelAt(files[p].px, x, y)]_vars

\* C23: an image_hash call that fails because the source file exists but
\* cannot be read as an image leaves the Sprite's cache as it was, and the
\* call that follows it on the same sprite, the file still unreadable and
\* not modified, fails again instead of returning a cached hash.
C23_FailureKeepsCache ==
    [][/\ (/\ last'.op = "image_hash" /\ ~last'.ok
           /\ files[last'.arg].kind = "corrupt") =>
              sprites'[last'.arg] = sprites[last'.arg]
       /\ (/\ last.op = "image_hash" /\ ~last.ok
           /\ files[last.arg].kind = "corrupt"
           /\ last'.op = "image_hash" /\ last'.arg = last.arg) =>
              ~last'.ok]_vars

\* What loaded_animations yields right after a load of the registry as it
\* is: the index then holds the registry's animations and no other key.
YieldedAfterLoad(collections) ==
    {anim \in RegistryAnimations :
        \A p \in SpritesIn(anim) : sprites[p].collection \in Enabled(collections)}

\* C24: after any sequence of queries, those that name an animation that is
\* not loaded included, loaded_animations yields only animations that have
\* a sprite in the registry, and the same set as right after the last load
\* for the same enablement dict.
C24_QueriesChangeNothing ==
    last.op = "loaded_animations" =>
        /\ last.ret \subseteq RegistryAnimations
        /\ last.ret = YieldedAfterLoad(last.arg)

\* The hash the Sprite of p holds, as a string; "" when it holds none.
HeldHash(p) == IF sprites[p].hash = <<>> THEN "" ELSE str(sprites[p].hash[1])

\* The call directly follows a completed propagate_main_copy on its group,
\* whose loaded members all have the main's crop size and whose main has a
\* content hash other than the vanilla hash.
FollowsPropagate(vanilla_hash) ==
    /\ last.aux # <<>>
    /\ SameCropSize(vanilla_hash, last.aux[1].main)
    /\ HeldHash(last.aux[1].main) # vanilla_hash

\* C25: directly after a completed propagate_main_copy(vanilla_hash, main),
\* the main's content hash differing from vanilla_hash and all loaded
\* members having the main's crop size, check_completion on the group
\* returns True and sorted_duplicates finds every loaded member edited (its
\* hash is the main's, not the vanilla one), also when the members' hashes
\* had been cached before the propagation.
C25_CompleteAfterPropagate ==
    /\ (last.op = "check_completion" /\ FollowsPropagate(last.arg[2])) =>
          last.ok /\ last.ret = TRUE
    /\ (last.op = "sorted_duplicates" /\ FollowsPropagate(last.arg)) =>
          /\ last.ok
          /\ Range(last.ret) = LoadedOf(duplicates[last.arg])
          /\ \A p \in Range(last.ret) :
                /\ HeldHash(p) # last.arg
                /\ HeldHash(p) = HeldHash(last.aux[1].main)

C25_Witness ==
    /\ last.op = "check_completion"
    /\ FollowsPropagate(last.arg[2])
    /\ last.ret = TRUE
    /\ last.aux[1].written # {}
    /\ last.aux[1].written \subseteq last.aux[1].stale

====
